---- MODULE Spec2Model ----
(***************************************************************************)
(* projectgen: the validation chain (generator/validator.py), the CLI      *)
(* controller (generator/cli.py) and the generation pipeline               *)
(* (generator/creator.py), as state machines over an abstract filesystem.  *)
(***************************************************************************)
EXTENDS Integers, Sequences, FiniteSets, TLC

(***************************************************************************)
(* Bounds                                                                  *)
(***************************************************************************)
\* Longest project name (in characters) the validator specification draws.
MaxNameLen == 3

(***************************************************************************)
(* Characters and names.  A project name is a sequence of one-character    *)
(* strings.  Letters and Digits hold the letters and digits the model uses *)
(* (of a-z, A-Z and 0-9); the alphabet names are drawn from has            *)
(* representatives of every class the regular expression of                *)
(* ProjectNameValidator tells apart, plus a newline.                       *)
(***************************************************************************)
Letters == {"a", "b", "d", "e", "i", "m", "o", "p", "y", "Z"}
Digits == {"7"}
AlNum == Letters \cup Digits
NameChars == AlNum \cup {"-", "_"}
Newline == "\n"
Alphabet == {"a", "Z", "7", "-", "_", " ", "/", Newline}

NamesUpTo(n) == UNION {[1..k -> Alphabet] : k \in 0..n}

(***************************************************************************)
(* Paths.  The target path is output_dir / project_name; its parent is the *)
(* output directory (names are single path components wherever a check     *)
(* past the name-format one is reached).                                   *)
(***************************************************************************)
OutDirs == {"cwd", "alt"}

TargetPath(output_dir, project_name) == [dir |-> output_dir, name |-> project_name]

ParentPath(path) == [dir |-> path.dir, name |-> <<>>]

(***************************************************************************)
(* Templates (generator/templates).  A FileTemplate pairs a relative path  *)
(* with its content: a literal string, or a function returning one.  The   *)
(* text of a generated file is identified by the variant and the path it   *)
(* is written for; the user's own text is Custom.                          *)
(***************************************************************************)
NoText == [of |-> <<>>, by |-> ""]

Custom == [of |-> <<>>, by |-> "user"]

StrContent(text) == [callable |-> FALSE, text |-> text, returns |-> NoText]

FileTemplate(relative_path, content) ==
    [relative_path |-> relative_path, content |-> content]

\* FileTemplate.get_content
get_content(template) ==
    IF template.content.callable THEN template.content.returns
    ELSE template.content.text

\* A template of the given variant with literal content.
Tpl(variant, path) == FileTemplate(path, StrContent([of |-> path, by |-> variant]))

\* templates/python/app_files.py
get_app_templates ==
    <<Tpl("python", <<"app", "__init__.py">>),
      Tpl("python", <<"app", "main.py">>),
      Tpl("python", <<"app", "core", "__init__.py">>),
      Tpl("python", <<"app", "core", "config.py">>),
      Tpl("python", <<"app", "core", "security.py">>),
      Tpl("python", <<"app", "core", "events.py">>),
      Tpl("python", <<"app", "core", "exceptions.py">>),
      Tpl("python", <<"app", "db", "__init__.py">>),
      Tpl("python", <<"app", "db", "session.py">>),
      Tpl("python", <<"app", "db", "base_class.py">>),
      Tpl("python", <<"app", "db", "base.py">>),
      Tpl("python", <<"app", "models", "__init__.py">>),
      Tpl("python", <<"app", "models", "user.py">>),
      Tpl("python", <<"app", "models", "product.py">>),
      Tpl("python", <<"app", "models", "order.py">>),
      Tpl("python", <<"app", "schemas", "__init__.py">>),
      Tpl("python", <<"app", "schemas", "user.py">>),
      Tpl("python", <<"app", "schemas", "product.py">>),
      Tpl("python", <<"app", "schemas", "order.py">>),
      Tpl("python", <<"app", "repositories", "__init__.py">>),
      Tpl("python", <<"app", "repositories", "base.py">>),
      Tpl("python", <<"app", "repositories", "user_repository.py">>),
      Tpl("python", <<"app", "repositories", "product_repository.py">>),
      Tpl("python", <<"app", "repositories", "order_repository.py">>),
      Tpl("python", <<"app", "services", "__init__.py">>),
      Tpl("python", <<"app", "services", "cache_service.py">>),
      Tpl("python", <<"app", "services", "user_service.py">>),
      Tpl("python", <<"app", "services", "product_service.py">>),
      Tpl("python", <<"app", "services", "order_service.py">>),
      Tpl("python", <<"app", "factories", "__init__.py">>),
      Tpl("python", <<"app", "factories", "service_factory.py">>),
      Tpl("python", <<"app", "utils", "__init__.py">>),
      Tpl("python", <<"app", "utils", "validators.py">>),
      Tpl("python", <<"app", "utils", "helpers.py">>),
      Tpl("python", <<"app", "api", "__init__.py">>),
      Tpl("python", <<"app", "api", "dependencies.py">>),
      Tpl("python", <<"app", "api", "v1", "__init__.py">>),
      Tpl("python", <<"app", "api", "v1", "router.py">>),
      Tpl("python", <<"app", "api", "v1", "endpoints", "__init__.py">>),
      Tpl("python", <<"app", "api", "v1", "endpoints", "users.py">>),
      Tpl("python", <<"app", "api", "v1", "endpoints", "products.py">>),
      Tpl("python", <<"app", "api", "v1", "endpoints", "orders.py">>)>>

\* templates/config_files.py
get_cicd_templates ==
    <<Tpl("python", <<".github", "workflows", "ci.yml">>),
      Tpl("python", <<".github", "workflows", "release.yml">>),
      Tpl("python", <<".github", "workflows", "test-pypi.yml">>)>>

py_get_config_templates(include_docker, include_cicd) ==
    <<Tpl("python", <<".env.example">>),
      Tpl("python", <<".gitignore">>),
      Tpl("python", <<"pyproject.toml">>),
      Tpl("python", <<"requirements.txt">>),
      Tpl("python", <<".pre-commit-config.yaml">>),
      Tpl("python", <<"alembic.ini">>),
      Tpl("python", <<"alembic", "env.py">>),
      Tpl("python", <<"alembic", "script.py.mako">>),
      Tpl("python", <<"alembic", "versions", ".gitkeep">>),
      Tpl("python", <<"README.md">>)>>
    \o (IF include_docker
        THEN <<Tpl("python", <<"Dockerfile">>),
           Tpl("python", <<"docker-compose.yml">>)>>
        ELSE <<>>)
    \o (IF include_cicd THEN get_cicd_templates ELSE <<>>)

\* templates/test_files.py
get_test_templates ==
    <<Tpl("python", <<"tests", "__init__.py">>),
      Tpl("python", <<"tests", "conftest.py">>),
      Tpl("python", <<"tests", "unit", "__init__.py">>),
      Tpl("python", <<"tests", "unit", "test_services.py">>),
      Tpl("python", <<"tests", "unit", "test_repositories.py">>),
      Tpl("python", <<"tests", "integration", "__init__.py">>),
      Tpl("python", <<"tests", "integration", "test_users_endpoint.py">>)>>

\* templates/typescript/core_files.py
get_core_templates ==
    <<Tpl("typescript", <<"src", "main.ts">>),
      Tpl("typescript", <<"src", "app.module.ts">>),
      Tpl("typescript", <<"src", "config", "env.ts">>),
      Tpl("typescript", <<"tsconfig.json">>),
      Tpl("typescript", <<"nest-cli.json">>),
      Tpl("typescript", <<".eslintrc.js">>),
      Tpl("typescript", <<".prettierrc">>),
      Tpl("typescript", <<"src", "common", "decorators", ".gitkeep">>),
      Tpl("typescript", <<"src", "common", "filters", ".gitkeep">>),
      Tpl("typescript", <<"src", "common", "guards", ".gitkeep">>),
      Tpl("typescript", <<"src", "common", "interceptors", ".gitkeep">>),
      Tpl("typescript", <<"src", "common", "middleware", ".gitkeep">>),
      Tpl("typescript", <<"src", "common", "pipes", ".gitkeep">>),
      Tpl("typescript", <<"src", "utils", ".gitkeep">>)>>

\* A variant of get_agent_templates, cut down to the module file, that adds
\* the RAG placeholder whatever include_rag is.
get_agent_templates_always_rag(include_rag) ==
    <<Tpl("typescript", <<"src", "agents", "agents.module.ts">>),
      Tpl("typescript", <<"src", "agents", "rag", ".gitkeep">>)>>

\* templates/typescript/agent_files.py
get_agent_templates(include_rag) ==
    <<Tpl("typescript", <<"src", "agents", "agents.module.ts">>),
      Tpl("typescript", <<"src", "agents", "common", "llm-provider.interface.ts">>),
      Tpl("typescript", <<"src", "agents", "common", "model-registry.ts">>),
      Tpl("typescript", <<"src", "agents", "providers", "openai.provider.ts">>),
      Tpl("typescript", <<"src", "agents", "providers", "anthropic.provider.ts">>),
      Tpl("typescript", <<"src", "agents", "providers", "google.provider.ts">>),
      Tpl("typescript", <<"src", "agents", "providers", "provider.factory.ts">>),
      Tpl("typescript", <<"src", "agents", "chat", "chat.module.ts">>),
      Tpl("typescript", <<"src", "agents", "chat", "chat.controller.ts">>),
      Tpl("typescript", <<"src", "agents", "chat", "chat.service.ts">>),
      Tpl("typescript", <<"src", "agents", "chat", "dto", "chat-request.dto.ts">>),
      Tpl("typescript", <<"src", "agents", "tools", ".gitkeep">>)>>
    \o (IF include_rag THEN <<Tpl("typescript", <<"src", "agents", "rag", ".gitkeep">>)>> ELSE <<>>)

\* templates/typescript/database_files.py
get_database_templates ==
    <<Tpl("typescript", <<"src", "database", "database.module.ts">>),
      Tpl("typescript", <<"src", "database", "schema.ts">>),
      Tpl("typescript", <<"drizzle.config.ts">>),
      Tpl("typescript", <<"src", "database", "repositories", ".gitkeep">>),
      Tpl("typescript", <<"src", "database", "migrations", ".gitkeep">>),
      Tpl("typescript", <<"src", "database", "seeds", ".gitkeep">>)>>

\* templates/typescript/config_files.py
ts_get_config_templates(include_docker, include_tests, include_cicd, include_queue) ==
    <<Tpl("typescript", <<"package.json">>),
      Tpl("typescript", <<".env.example">>),
      Tpl("typescript", <<"README.md">>),
      Tpl("typescript", <<".gitignore">>),
      Tpl("typescript", <<"src", "monitoring", "monitoring.module.ts">>),
      Tpl("typescript", <<"src", "monitoring", "metrics.service.ts">>)>>
    \o (IF include_docker
        THEN <<Tpl("typescript", <<"Dockerfile">>),
           Tpl("typescript", <<"docker-compose.yml">>)>>
        ELSE <<>>)
    \o (IF include_cicd THEN <<Tpl("typescript", <<".github", "workflows", "ci.yml">>)>> ELSE <<>>)
    \o (IF include_queue THEN <<Tpl("typescript", <<"src", "queue", ".gitkeep">>)>> ELSE <<>>)

(***************************************************************************)
(* Filesystem.  For every output directory d, fs[d] describes the target   *)
(* path under d and its parent:                                            *)
(*   parent : "missing" | "readonly" | "writable"                          *)
(*   kind   : "absent" | "dir" | "file"                                    *)
(*   dirs   : the directories under the target (relative paths)            *)
(*   files  : relative path -> content, the files under the target         *)
(* A relative path is a sequence of components.                            *)
(***************************************************************************)
NoFiles == [p \in {} |-> NoText]

AbsentTarget == [kind |-> "absent", dirs |-> {}, files |-> NoFiles]
EmptyDirTarget == [kind |-> "dir", dirs |-> {}, files |-> NoFiles]
RegularFileTarget == [kind |-> "file", dirs |-> {}, files |-> NoFiles]
\* A project directory the user already worked in: a README of their own and
\* a file the generator knows nothing about.
OccupiedTarget ==
    [kind |-> "dir", dirs |-> {},
     files |-> (<<"README.md">> :> Custom) @@ (<<"notes.txt">> :> Custom)]

\* The metadata directory of a git repository, relative to the target.
GitDir == <<".git">>

\* A target that already is a git repository.
RepoTarget == [kind |-> "dir", dirs |-> {GitDir}, files |-> NoFiles]
\* A target in which a directory sits where both variants write a file.
BlockedTarget == [kind |-> "dir", dirs |-> {<<"README.md">>}, files |-> NoFiles]

TargetStates ==
    {AbsentTarget, EmptyDirTarget, RegularFileTarget, OccupiedTarget,
     RepoTarget, BlockedTarget}

\* What can be found under one output directory: nothing exists under a
\* missing parent.
DirStates ==
    {[parent |-> p, kind |-> t.kind, dirs |-> t.dirs, files |-> t.files] :
        p \in {"readonly", "writable"}, t \in TargetStates}
    \cup {[parent |-> "missing", kind |-> "absent", dirs |-> {}, files |-> NoFiles]}

\* Path.exists()
PathExists(fsys, path) ==
    IF path.name = <<>> THEN fsys[path.dir].parent # "missing"
    ELSE fsys[path.dir].kind # "absent"

\* The entries Path.iterdir() yields for a directory.
Entries(fsys, path) ==
    {d[1] : d \in fsys[path.dir].dirs} \cup {f[1] : f \in DOMAIN fsys[path.dir].files}

\* os.access(path, os.W_OK) on the parent
Writable(fsys, path) == fsys[path.dir].parent = "writable"

(***************************************************************************)
(* Outcomes of a check: it returns (pass) or raises.                       *)
(***************************************************************************)
Pass == [kind |-> "pass", by |-> "", reason |-> "", path |-> <<>>]

\* raise ValidationError(reason), the reason naming `path` when it has one
Invalid(by, reason, path) ==
    [kind |-> "ValidationError", by |-> by, reason |-> reason, path |-> path]

Raised(by, exc) == [kind |-> exc, by |-> by, reason |-> "", path |-> <<>>]

(***************************************************************************)
(* ProjectNameValidator                                                    *)
(***************************************************************************)
\* `$` of Python's re matches at the end of the string and also just before
\* a newline that is the last character.
DollarAt(s, k) ==
    \/ k = Len(s)
    \/ k = Len(s) - 1 /\ s[Len(s)] = Newline

\* re.match(r'^[a-zA-Z0-9][a-zA-Z0-9_-]*$', s)
ReMatchName(s) ==
    /\ Len(s) >= 1
    /\ s[1] \in AlNum
    /\ \E k \in 1..Len(s) :
          /\ \A i \in 2..k : s[i] \in NameChars
          /\ DollarAt(s, k)

MinNameLen == 2

ProjectNameValidator_do_validate(project_name, target_path, fsys) ==
    IF ~ReMatchName(project_name)
    THEN Invalid("ProjectNameValidator", "format", <<>>)
    ELSE IF Len(project_name) < MinNameLen
    THEN Invalid("ProjectNameValidator", "length", <<>>)
    ELSE Pass

(***************************************************************************)
(* DirectoryExistsValidator                                                *)
(***************************************************************************)
\* A variant that forgets the emptiness test: any existing target is refused.
DirectoryExistsValidator_no_iterdir(project_name, target_path, fsys) ==
    IF PathExists(fsys, target_path)
    THEN Invalid("DirectoryExistsValidator", "exists and not empty", target_path)
    ELSE Pass

DirectoryExistsValidator_do_validate(project_name, target_path, fsys) ==
    IF ~PathExists(fsys, target_path) THEN Pass
    ELSE IF fsys[target_path.dir].kind = "file"
    THEN Raised("DirectoryExistsValidator", "NotADirectoryError")
    ELSE IF Entries(fsys, target_path) # {}
    THEN Invalid("DirectoryExistsValidator", "exists and not empty", target_path)
    ELSE Pass

(***************************************************************************)
(* WritablePathValidator                                                   *)
(***************************************************************************)
\* A variant that forgets os.access: an existing parent is always accepted.
WritablePathValidator_no_access(project_name, target_path, fsys) ==
    LET parent == ParentPath(target_path) IN
    IF ~PathExists(fsys, parent)
    THEN Invalid("WritablePathValidator", "parent does not exist", parent)
    ELSE Pass

WritablePathValidator_do_validate(project_name, target_path, fsys) ==
    LET parent == ParentPath(target_path) IN
    IF ~PathExists(fsys, parent)
    THEN Invalid("WritablePathValidator", "parent does not exist", parent)
    ELSE IF ~Writable(fsys, parent)
    THEN Invalid("WritablePathValidator", "no write permission", parent)
    ELSE Pass

(***************************************************************************)
(* The chain                                                               *)
(***************************************************************************)
\* A variant that links the destination check ahead of the name check.
create_validator_chain_reordered ==
    <<"DirectoryExistsValidator", "ProjectNameValidator", "WritablePathValidator">>

\* The link structure: the head validator first, each followed by its _next.
create_validator_chain ==
    <<"ProjectNameValidator", "DirectoryExistsValidator", "WritablePathValidator">>

\* The hook each concrete validator implements.
DoValidate(validator, project_name, target_path, fsys) ==
    CASE validator = "ProjectNameValidator" ->
            ProjectNameValidator_do_validate(project_name, target_path, fsys)
      [] validator = "DirectoryExistsValidator" ->
            DirectoryExistsValidator_do_validate(project_name, target_path, fsys)
      [] validator = "WritablePathValidator" ->
            WritablePathValidator_do_validate(project_name, target_path, fsys)

\* Validator.validate on link i of the chain: run this link's hook and, when
\* it returned and there is a next link, delegate to it.  `ran` collects the
\* links whose hook was evaluated.
RECURSIVE Validator_validate(_, _, _, _, _, _)
Validator_validate(chain, i, project_name, target_path, fsys, ran) ==
    LET r == DoValidate(chain[i], project_name, target_path, fsys)
        ran2 == Append(ran, chain[i])
    IN  IF r.kind # "pass" THEN [checked |-> ran2, result |-> r]
        ELSE IF i < Len(chain)
        THEN Validator_validate(chain, i + 1, project_name, target_path, fsys, ran2)
        ELSE [checked |-> ran2, result |-> Pass]

(***************************************************************************)
(* Template collection (python_creator.py, typescript_creator.py)          *)
(***************************************************************************)
\* A variant that collects the test files whatever the options say.
PythonProjectCreator_collect_always_tests(options) ==
    get_app_templates
    \o py_get_config_templates(options.include_docker, options.include_cicd)
    \o get_test_templates

\* A variant that also collects the TypeScript agent files, RAG placeholder
\* included.
PythonProjectCreator_collect_with_rag(options) ==
    get_app_templates
    \o py_get_config_templates(options.include_docker, options.include_cicd)
    \o (IF options.include_tests THEN get_test_templates ELSE <<>>)
    \o get_agent_templates(TRUE)

PythonProjectCreator_collect_templates(options) ==
    get_app_templates
    \o py_get_config_templates(options.include_docker, options.include_cicd)
    \o (IF options.include_tests THEN get_test_templates ELSE <<>>)

\* A variant that collects the core files a second time at the end.
TypeScriptProjectCreator_collect_core_twice(options) ==
    get_core_templates
    \o get_agent_templates(options.include_rag)
    \o get_database_templates
    \o ts_get_config_templates(options.include_docker, options.include_tests,
                               options.include_cicd, options.include_queue)
    \o get_core_templates

TypeScriptProjectCreator_collect_templates(options) ==
    get_core_templates
    \o get_agent_templates(options.include_rag)
    \o get_database_templates
    \o ts_get_config_templates(options.include_docker, options.include_tests,
                               options.include_cicd, options.include_queue)

collect_templates(variant, options) ==
    IF variant = "python" THEN PythonProjectCreator_collect_templates(options)
    ELSE TypeScriptProjectCreator_collect_templates(options)

(***************************************************************************)
(* Filesystem operations of the pipeline.  They act on the state t of one  *)
(* output directory and give the state after the call together with the    *)
(* exception it raised ("none" when it returned).                          *)
(***************************************************************************)
Returned(t) == [t |-> t, error |-> "none"]

Threw(t, exc) == [t |-> t, error |-> exc]

\* Path.parent of a relative path; the root is <<>>.
Parent(path) == SubSeq(path, 1, Len(path) - 1)

\* The loop of _extract_directories: current and every parent up to the root.
RECURSIVE ParentsUp(_)
ParentsUp(current) ==
    IF current = <<>> THEN {}
    ELSE {current} \cup ParentsUp(Parent(current))

\* A variant that takes the directory each file is in and none above it.
extract_directories_parents_only(tpls) ==
    {<<>>} \cup {Parent(tpls[i].relative_path) : i \in 1..Len(tpls)}

\* ProjectCreator._extract_directories
extract_directories(tpls) ==
    {<<>>} \cup UNION {ParentsUp(Parent(tpls[i].relative_path)) : i \in 1..Len(tpls)}

\* (target / path).exists()
RelExists(t, path) ==
    /\ t.kind = "dir"
    /\ path \in t.dirs \/ path \in DOMAIN t.files

\* (target / directory).mkdir(parents=True, exist_ok=True)
Mkdir(t, directory) ==
    IF t.kind = "file"
    THEN Threw(t, IF directory = <<>> THEN "FileExistsError" ELSE "NotADirectoryError")
    ELSE IF t.kind = "absent" /\ t.parent = "readonly"
    THEN Threw(t, "PermissionError")
    ELSE LET root == [t EXCEPT !.kind = "dir",
                               !.parent = IF @ = "missing" THEN "writable" ELSE @] IN
         IF directory \in DOMAIN t.files
         THEN Threw(root, "FileExistsError")
         ELSE IF \E d \in ParentsUp(Parent(directory)) : d \in DOMAIN t.files
         THEN Threw(root, "NotADirectoryError")
         ELSE Returned([root EXCEPT !.dirs = @ \cup ParentsUp(directory)])

\* A variant of write_text that leaves the file empty.
WriteText_truncating(t, path, content) ==
    IF path \in t.dirs THEN Threw(t, "IsADirectoryError")
    ELSE Returned([t EXCEPT !.files =
            [q \in DOMAIN @ \cup {path} |-> IF q = path THEN NoText ELSE @[q]]])

\* A variant of write_text that removes every other file of the target.
WriteText_clobber(t, path, content) ==
    IF path \in t.dirs THEN Threw(t, "IsADirectoryError")
    ELSE Returned([t EXCEPT !.files = [q \in {path} |-> content]])

\* (target / path).write_text(content)
WriteText(t, path, content) ==
    IF path \in t.dirs THEN Threw(t, "IsADirectoryError")
    ELSE Returned([t EXCEPT !.files =
            [q \in DOMAIN @ \cup {path} |-> IF q = path THEN content ELSE @[q]]])

\* ProjectCreator._create_directories: the root first (it sorts first), then
\* every derived directory.  No entry of the modelled filesystems stands in
\* the way of a derived directory, so only the root's mkdir can raise.
create_directories(t, tpls) ==
    LET root == Mkdir(t, <<>>)
        dirs == extract_directories(tpls) \ {<<>>}
    IN  IF root.error # "none" THEN root
        ELSE IF \E d \in dirs : Mkdir(root.t, d).error # "none"
        THEN Threw(root.t, "FileExistsError")
        ELSE Returned([root.t EXCEPT !.dirs = @ \cup dirs])

\* A variant of the loop body of _create_files that ignores the overwrite
\* option and always writes.
write_template_always(t, template, overwrite) ==
    LET made == Mkdir(t, Parent(template.relative_path)) IN
    IF made.error # "none" THEN made
    ELSE WriteText(made.t, template.relative_path, get_content(template))

\* A variant that skips every existing file, whatever the overwrite option.
write_template_never_over(t, template, overwrite) ==
    IF RelExists(t, template.relative_path) THEN Returned(t)
    ELSE LET made == Mkdir(t, Parent(template.relative_path)) IN
         IF made.error # "none" THEN made
         ELSE WriteText(made.t, template.relative_path, get_content(template))

\* The loop body of _create_files for one template.
write_template(t, template, overwrite) ==
    IF RelExists(t, template.relative_path) /\ ~overwrite THEN Returned(t)
    ELSE LET made == Mkdir(t, Parent(template.relative_path)) IN
         IF made.error # "none" THEN made
         ELSE WriteText(made.t, template.relative_path, get_content(template))

\* ProjectCreator._create_files from template i on: the loop stops at the
\* first exception and leaves what it wrote.
RECURSIVE create_files(_, _, _, _)
create_files(t, tpls, overwrite, i) ==
    IF i > Len(tpls) THEN Returned(t)
    ELSE LET r == write_template(t, tpls[i], overwrite) IN
         IF r.error # "none" THEN r
         ELSE create_files(r.t, tpls, overwrite, i + 1)

\* A variant that writes the files before it makes the directories.
CreateSteps_files_first == <<"collect", "files", "directories", "git", "hooks">>

\* The steps of ProjectCreator.create, in the order it calls them.
CreateSteps == <<"collect", "directories", "files", "git", "hooks">>

StepIndex(step) == CHOOSE i \in 1..Len(CreateSteps) : CreateSteps[i] = step

\* Where create goes once `step` returned.
After(step) ==
    IF StepIndex(step) < Len(CreateSteps) THEN CreateSteps[StepIndex(step) + 1]
    ELSE "finish"

\* What launching an external tool (subprocess.run with check=True and a
\* timeout) can do: return, or raise one of these.
ToolOutcomes ==
    {"ok", "CalledProcessError", "FileNotFoundError", "TimeoutExpired", "PermissionError"}

\* The exceptions _initialize_git and _install_pre_commit catch.
CaughtToolErrors == {"CalledProcessError", "FileNotFoundError", "TimeoutExpired"}

(***************************************************************************)
(* State                                                                   *)
(***************************************************************************)
VARIABLES
    args,             \* the argparse.Namespace of the run
    fs,               \* the filesystem
    fs0,              \* the filesystem when the run started
    pc,               \* where the run is
    validator_chain,  \* CLI._validator_chain
    checked,          \* the links evaluated by the latest chain invocation
    outcome,          \* what the latest chain invocation did
    confirm_shown,    \* whether the confirmation prompt was shown
    creator,          \* the ProjectCreator of the run
    templates,        \* creator._templates
    trace,            \* the steps of create that were started
    tools,            \* the external commands that were launched
    raised,           \* the exception that ended the run ("none" if none)
    exit_code         \* what run returned (NoExit while it runs)

vars == <<args, fs, fs0, pc, validator_chain, checked, outcome, confirm_shown,
          creator, templates, trace, tools, raised, exit_code>>

NotRun == [kind |-> "none", by |-> "", reason |-> "", path |-> <<>>]

NoExit == -1

NoOptions ==
    [include_docker |-> FALSE, include_tests |-> FALSE, include_cicd |-> FALSE,
     overwrite |-> FALSE, include_rag |-> FALSE, include_queue |-> FALSE]

NoCreator ==
    [made |-> FALSE, project_name |-> <<>>, output_dir |-> "", variant |-> "",
     options |-> NoOptions]

\* The name used when none is given.
MyApp == <<"m", "y", "-", "a", "p", "p">>

\* Feature flags as argparse leaves them: (no_docker, no_tests, no_cicd,
\* include_rag, include_queue).
FlagChoices ==
    {[no_docker |-> FALSE, no_tests |-> FALSE, no_cicd |-> FALSE,
      include_rag |-> FALSE, include_queue |-> FALSE],
     [no_docker |-> TRUE, no_tests |-> TRUE, no_cicd |-> TRUE,
      include_rag |-> FALSE, include_queue |-> FALSE],
     [no_docker |-> FALSE, no_tests |-> FALSE, no_cicd |-> FALSE,
      include_rag |-> TRUE, include_queue |-> TRUE]}

\* A name of ordinary shape given on the command line.
DemoApi == <<"d", "e", "m", "o", "-", "a", "p", "i">>

\* Names given on the command line (<<>>: none given) or typed at the prompt.
CliNames == {<<>>, <<"x">>, <<"a", "b">>, DemoApi}

PromptNames == {<<"x">>, <<"a", "b">>}

MakeArgs(name, type, dir, overwrite, non_interactive, f) ==
    [project_name |-> name, type |-> type, output_dir |-> dir,
     overwrite |-> overwrite, non_interactive |-> non_interactive,
     no_docker |-> f.no_docker, no_tests |-> f.no_tests, no_cicd |-> f.no_cicd,
     include_rag |-> f.include_rag, include_queue |-> f.include_queue]

\* The filesystems a run starts on: anything under the working directory,
\* and an alternative output directory that is missing, free or occupied.
AltStates ==
    {s \in DirStates :
        \/ s.parent = "missing"
        \/ s.parent = "writable" /\ s.kind = "absent"
        \/ s.parent = "writable" /\ s.files # NoFiles}

CwdStates == {s \in DirStates : s.parent # "missing"}

(***************************************************************************)
(* The validator chain on its own: any name, any filesystem, invoked as    *)
(* chain.validate(project_name, output_dir / project_name).                *)
(***************************************************************************)
ChainInit ==
    /\ \E n \in NamesUpTo(MaxNameLen) :
          args = MakeArgs(n, "", "cwd", FALSE, TRUE,
                          CHOOSE f \in FlagChoices : ~f.no_docker /\ ~f.include_rag)
    /\ \E s \in DirStates : fs = [d \in OutDirs |-> s]
    /\ fs0 = fs
    /\ pc = "chain"
    /\ validator_chain = create_validator_chain
    /\ checked = <<>>
    /\ outcome = NotRun
    /\ confirm_shown = FALSE
    /\ creator = NoCreator
    /\ templates = <<>>
    /\ trace = <<>>
    /\ tools = <<>>
    /\ raised = "none"
    /\ exit_code = NoExit

\* A variant of the invocation in which a link that was evaluated is dropped
\* from the chain.
ChainValidate_consuming ==
    /\ pc \in {"chain", "chain_done"}
    /\ validator_chain # <<>>
    /\ LET r == Validator_validate(validator_chain, 1, args.project_name,
                    TargetPath(args.output_dir, args.project_name), fs, <<>>)
       IN  /\ checked' = r.checked
           /\ outcome' = r.result
    /\ validator_chain' = Tail(validator_chain)
    /\ pc' = "chain_done"
    /\ UNCHANGED <<args, fs, fs0, confirm_shown, creator, templates, trace,
                   tools, raised, exit_code>>

ChainValidate ==
    /\ pc \in {"chain", "chain_done"}
    /\ LET r == Validator_validate(validator_chain, 1, args.project_name,
                    TargetPath(args.output_dir, args.project_name), fs, <<>>)
       IN  /\ checked' = r.checked
           /\ outcome' = r.result
    /\ pc' = "chain_done"
    /\ UNCHANGED <<args, fs, fs0, validator_chain, confirm_shown, creator,
                   templates, trace, tools, raised, exit_code>>

ChainNext == ChainValidate

SpecChain == ChainInit /\ [][ChainNext]_vars

(***************************************************************************)
(* CLI.run for the create command (generator/cli.py)                       *)
(***************************************************************************)
\* A variant of run that asks for confirmation before it validates.
RunSteps_confirm_first == <<"config", "confirm", "validate", "create">>

\* The calls of run, in order: _get_interactive_config, _validate,
\* _confirm_creation, _create_project.
RunSteps == <<"config", "validate", "confirm", "create">>

RunIndex(step) == CHOOSE i \in 1..Len(RunSteps) : RunSteps[i] = step

\* Where run goes once `step` returned; after _create_project the first step
\* of ProjectCreator.create starts.
AfterRun(step) ==
    IF RunIndex(step) < Len(RunSteps) THEN RunSteps[RunIndex(step) + 1]
    ELSE CreateSteps[1]

\* A variant of the except clauses that reports a cancellation as an error.
ExitStatus_cancel_is_error(exc) ==
    CASE exc = "ValidationError" -> 1
      [] OTHER -> 1

\* The except clauses of run: the status returned for an exception.
ExitStatus(exc) ==
    CASE exc = "ValidationError" -> 1
      [] exc = "KeyboardInterrupt" -> 130
      [] OTHER -> 1

\* What the user may answer at the prompts of _get_interactive_config.
Answers ==
    [type : {"python", "typescript"}, name : PromptNames, dir : OutDirs,
     flags : FlagChoices]

\* CLI._get_interactive_config.  Without --non-interactive every question is
\* asked again with the current values as defaults; the name is asked for
\* only when there is none, the type only when there is none, the output
\* directory only while it is the working directory.  (Choosing a preset at
\* the first prompt sets the type and the RAG and queue defaults, which the
\* answers below cover.)
get_interactive_config(a, ans) ==
    IF a.non_interactive
    THEN [a EXCEPT !.project_name = IF @ = <<>> THEN MyApp ELSE @,
                   !.type = IF @ = "" THEN "typescript" ELSE @]
    ELSE LET type == IF a.type = "" THEN ans.type ELSE a.type IN
         [a EXCEPT !.type = type,
                   !.project_name = IF @ = <<>> THEN ans.name ELSE @,
                   !.output_dir = IF @ = "cwd" THEN ans.dir ELSE @,
                   !.no_docker = ans.flags.no_docker,
                   !.no_tests = ans.flags.no_tests,
                   !.no_cicd = ans.flags.no_cicd,
                   !.include_rag =
                       IF type = "python" THEN @ ELSE ans.flags.include_rag,
                   !.include_queue =
                       IF type = "python" THEN @ ELSE ans.flags.include_queue]

\* CLI._validate: the chain is invoked only without --overwrite.
cli_validate(a, chain, fsys) ==
    IF ~a.overwrite
    THEN Validator_validate(chain, 1, a.project_name,
                            TargetPath(a.output_dir, a.project_name), fsys, <<>>)
    ELSE [checked |-> <<>>, result |-> NotRun]

\* The options dictionary _create_project hands to the creator.
creator_options(a) ==
    [include_docker |-> ~a.no_docker, include_tests |-> ~a.no_tests,
     include_cicd |-> ~a.no_cicd, overwrite |-> a.overwrite,
     include_rag |-> IF a.type = "python" THEN FALSE ELSE a.include_rag,
     include_queue |-> IF a.type = "python" THEN FALSE ELSE a.include_queue]

Init ==
    /\ \E n \in CliNames, ty \in {"", "python", "typescript"}, d \in OutDirs,
          ow \in BOOLEAN, ni \in BOOLEAN, f \in FlagChoices :
          args = MakeArgs(n, ty, d, ow, ni, f)
    /\ \E c \in CwdStates, a \in AltStates : fs = [d \in OutDirs |-> IF d = "cwd" THEN c ELSE a]
    /\ fs0 = fs
    /\ pc = RunSteps[1]
    /\ validator_chain = create_validator_chain
    /\ checked = <<>>
    /\ outcome = NotRun
    /\ confirm_shown = FALSE
    /\ creator = NoCreator
    /\ templates = <<>>
    /\ trace = <<>>
    /\ tools = <<>>
    /\ raised = "none"
    /\ exit_code = NoExit

\* run returns through one of its except clauses.
Raise(exc) ==
    /\ pc' = "done"
    /\ raised' = exc
    /\ exit_code' = ExitStatus(exc)

\* _get_interactive_config(parsed)
GetInteractiveConfig ==
    /\ pc = "config"
    /\ \E ans \in Answers : args' = get_interactive_config(args, ans)
    /\ pc' = AfterRun("config")
    /\ UNCHANGED <<fs, fs0, validator_chain, checked, outcome, confirm_shown,
                   creator, templates, trace, tools, raised, exit_code>>

\* The user interrupts a prompt of the configuration or of the confirmation.
Interrupt ==
    /\ pc \in {"config", "confirm"}
    /\ ~args.non_interactive
    /\ Raise("KeyboardInterrupt")
    /\ UNCHANGED <<args, fs, fs0, validator_chain, checked, outcome,
                   confirm_shown, creator, templates, trace, tools>>

\* _validate(parsed)
Validate ==
    /\ pc = "validate"
    /\ LET r == cli_validate(args, validator_chain, fs) IN
       /\ checked' = r.checked
       /\ outcome' = r.result
       /\ IF r.result.kind \in {"pass", "none"}
          THEN pc' = AfterRun("validate") /\ UNCHANGED <<raised, exit_code>>
          ELSE Raise(r.result.kind)
    /\ UNCHANGED <<args, fs, fs0, validator_chain, confirm_shown, creator,
                   templates, trace, tools>>

\* _confirm_creation(parsed) with --non-interactive: nothing is asked.
ConfirmSkipped ==
    /\ pc = "confirm"
    /\ args.non_interactive
    /\ pc' = AfterRun("confirm")
    /\ UNCHANGED <<args, fs, fs0, validator_chain, checked, outcome,
                   confirm_shown, creator, templates, trace, tools, raised,
                   exit_code>>

\* One round of the loop of _confirm_creation: the summary is shown and the
\* user accepts it.
ConfirmAccept ==
    /\ pc = "confirm"
    /\ ~args.non_interactive
    /\ confirm_shown' = TRUE
    /\ pc' = AfterRun("confirm")
    /\ UNCHANGED <<args, fs, fs0, validator_chain, checked, outcome, creator,
                   templates, trace, tools, raised, exit_code>>

\* The user rejects the summary and asks to modify the configuration.
ConfirmReconfigure ==
    /\ pc = "confirm"
    /\ ~args.non_interactive
    /\ confirm_shown' = TRUE
    /\ \E ans \in Answers : args' = get_interactive_config(args, ans)
    /\ UNCHANGED <<fs, fs0, pc, validator_chain, checked, outcome, creator,
                   templates, trace, tools, raised, exit_code>>

\* A variant in which declining to modify goes on with the configuration
\* shown.
ConfirmCancel_proceeds ==
    /\ pc = "confirm"
    /\ ~args.non_interactive
    /\ confirm_shown' = TRUE
    /\ pc' = AfterRun("confirm")
    /\ UNCHANGED <<args, fs, fs0, validator_chain, checked, outcome, creator,
                   templates, trace, tools, raised, exit_code>>

\* The user rejects the summary and declines to modify the configuration.
ConfirmCancel ==
    /\ pc = "confirm"
    /\ ~args.non_interactive
    /\ confirm_shown' = TRUE
    /\ Raise("KeyboardInterrupt")
    /\ UNCHANGED <<args, fs, fs0, validator_chain, checked, outcome, creator,
                   templates, trace, tools>>

\* _create_project(parsed) up to the call of creator.create: the creator of
\* the chosen variant is constructed.
CreateProject ==
    /\ pc = "create"
    /\ creator' = [made |-> TRUE, project_name |-> args.project_name,
                   output_dir |-> args.output_dir,
                   variant |-> IF args.type = "python" THEN "python" ELSE "typescript",
                   options |-> creator_options(args)]
    /\ templates' = <<>>
    /\ pc' = AfterRun("create")
    /\ UNCHANGED <<args, fs, fs0, validator_chain, checked, outcome,
                   confirm_shown, trace, tools, raised, exit_code>>

(***************************************************************************)
(* ProjectCreator.create (generator/creator.py)                            *)
(***************************************************************************)
\* Step 1: self._collect_templates()
CollectTemplates ==
    /\ pc = "collect"
    /\ trace' = Append(trace, "collect")
    /\ templates' = templates \o collect_templates(creator.variant, creator.options)
    /\ pc' = After("collect")
    /\ UNCHANGED <<args, fs, fs0, validator_chain, checked, outcome,
                   confirm_shown, creator, tools, raised, exit_code>>

\* Step 2: self._create_directories()
CreateDirectories ==
    /\ pc = "directories"
    /\ trace' = Append(trace, "directories")
    /\ LET r == create_directories(fs[creator.output_dir], templates) IN
       /\ fs' = [fs EXCEPT ![creator.output_dir] = r.t]
       /\ IF r.error = "none"
          THEN pc' = After("directories") /\ UNCHANGED <<raised, exit_code>>
          ELSE Raise(r.error)
    /\ UNCHANGED <<args, fs0, validator_chain, checked, outcome, confirm_shown,
                   creator, templates, tools>>

\* A variant of step 3 that undoes what it wrote when a write fails.
CreateFiles_rollback ==
    /\ pc = "files"
    /\ trace' = Append(trace, "files")
    /\ LET r == create_files(fs[creator.output_dir], templates,
                             creator.options.overwrite, 1) IN
       IF r.error = "none"
       THEN /\ fs' = [fs EXCEPT ![creator.output_dir] = r.t]
            /\ pc' = After("files")
            /\ UNCHANGED <<raised, exit_code>>
       ELSE /\ fs' = fs0
            /\ Raise(r.error)
    /\ UNCHANGED <<args, fs0, validator_chain, checked, outcome, confirm_shown,
                   creator, templates, tools>>

\* Step 3: self._create_files()
CreateFiles ==
    /\ pc = "files"
    /\ trace' = Append(trace, "files")
    /\ LET r == create_files(fs[creator.output_dir], templates,
                             creator.options.overwrite, 1) IN
       /\ fs' = [fs EXCEPT ![creator.output_dir] = r.t]
       /\ IF r.error = "none"
          THEN pc' = After("files") /\ UNCHANGED <<raised, exit_code>>
          ELSE Raise(r.error)
    /\ UNCHANGED <<args, fs0, validator_chain, checked, outcome, confirm_shown,
                   creator, templates, tools>>

\* A variant of step 4 that does not look for .git and stages the ignore-file
\* whatever `git init` did.
InitializeGit_unconditional ==
    /\ pc = "git"
    /\ trace' = Append(trace, "git")
    /\ \E init \in ToolOutcomes, add \in ToolOutcomes :
          /\ tools' = tools \o <<"git init", "git add .gitignore">>
          /\ fs' = IF init = "ok"
                   THEN [fs EXCEPT ![creator.output_dir].dirs = @ \cup {GitDir}]
                   ELSE fs
          /\ IF add \in CaughtToolErrors \cup {"ok"}
             THEN pc' = After("git") /\ UNCHANGED <<raised, exit_code>>
             ELSE Raise(add)
    /\ UNCHANGED <<args, fs0, validator_chain, checked, outcome, confirm_shown,
                   creator, templates>>

\* Step 4: self._initialize_git(): nothing when .git exists; otherwise
\* `git init` and, when it succeeded, `git add .gitignore`.  The three
\* caught exceptions end the step silently, any other one leaves create.
InitializeGit ==
    /\ pc = "git"
    /\ trace' = Append(trace, "git")
    /\ LET t == fs[creator.output_dir] IN
       IF RelExists(t, GitDir)
       THEN /\ pc' = After("git")
            /\ UNCHANGED <<fs, tools, raised, exit_code>>
       ELSE \E init \in ToolOutcomes :
            IF init # "ok"
            THEN /\ tools' = Append(tools, "git init")
                 /\ UNCHANGED fs
                 /\ IF init \in CaughtToolErrors
                    THEN pc' = After("git") /\ UNCHANGED <<raised, exit_code>>
                    ELSE Raise(init)
            ELSE \E add \in ToolOutcomes :
                 /\ tools' = tools \o <<"git init", "git add .gitignore">>
                 /\ fs' = [fs EXCEPT ![creator.output_dir].dirs = @ \cup {GitDir}]
                 /\ IF add \in CaughtToolErrors \cup {"ok"}
                    THEN pc' = After("git") /\ UNCHANGED <<raised, exit_code>>
                    ELSE Raise(add)
    /\ UNCHANGED <<args, fs0, validator_chain, checked, outcome, confirm_shown,
                   creator, templates>>

\* Step 5: self._install_pre_commit(): `pre-commit install`, with the same
\* three exceptions caught.
InstallPreCommit ==
    /\ pc = "hooks"
    /\ trace' = Append(trace, "hooks")
    /\ tools' = Append(tools, "pre-commit install")
    /\ \E install \in ToolOutcomes :
          IF install \in CaughtToolErrors \cup {"ok"}
          THEN pc' = After("hooks") /\ UNCHANGED <<raised, exit_code>>
          ELSE Raise(install)
    /\ UNCHANGED <<args, fs, fs0, validator_chain, checked, outcome,
                   confirm_shown, creator, templates>>

\* create returned: _show_success and `return 0`.
Finish ==
    /\ pc = "finish"
    /\ pc' = "done"
    /\ exit_code' = 0
    /\ UNCHANGED <<args, fs, fs0, validator_chain, checked, outcome,
                   confirm_shown, creator, templates, trace, tools, raised>>

Next ==
    \/ GetInteractiveConfig
    \/ Interrupt
    \/ Validate
    \/ ConfirmSkipped
    \/ ConfirmAccept
    \/ ConfirmReconfigure
    \/ ConfirmCancel
    \/ CreateProject
    \/ CollectTemplates
    \/ CreateDirectories
    \/ CreateFiles
    \/ InitializeGit
    \/ InstallPreCommit
    \/ Finish

Spec == Init /\ [][Next]_vars

(***************************************************************************)
(* A creator on its own: either variant constructed with any options       *)
(* dictionary over a free target, running the first three steps of create. *)
(***************************************************************************)
Variants == {"python", "typescript"}

AllOptions ==
    [include_docker : BOOLEAN, include_tests : BOOLEAN, include_cicd : BOOLEAN,
     overwrite : BOOLEAN, include_rag : BOOLEAN, include_queue : BOOLEAN]

FreeTarget ==
    [parent |-> "writable", kind |-> "absent", dirs |-> {}, files |-> NoFiles]

CollectInit ==
    /\ \E v \in Variants, o \in AllOptions :
          /\ creator = [made |-> TRUE, project_name |-> DemoApi,
                        output_dir |-> "alt", variant |-> v, options |-> o]
          /\ args = MakeArgs(DemoApi, v, "alt", o.overwrite, TRUE,
                             [no_docker |-> ~o.include_docker,
                              no_tests |-> ~o.include_tests,
                              no_cicd |-> ~o.include_cicd,
                              include_rag |-> o.include_rag,
                              include_queue |-> o.include_queue])
    /\ fs = [d \in OutDirs |-> FreeTarget]
    /\ fs0 = fs
    /\ pc = CreateSteps[1]
    /\ validator_chain = create_validator_chain
    /\ checked = <<>>
    /\ outcome = NotRun
    /\ confirm_shown = FALSE
    /\ templates = <<>>
    /\ trace = <<>>
    /\ tools = <<>>
    /\ raised = "none"
    /\ exit_code = NoExit

CollectNext ==
    \/ CollectTemplates
    \/ CreateDirectories
    \/ CreateFiles

SpecCollect == CollectInit /\ [][CollectNext]_vars

(***************************************************************************)
(* apply_preset (generator/cli.py): the namespace it is given carries the  *)
(* preset name and the options a preset speaks about.                      *)
(***************************************************************************)
Presets ==
    [n \in {"chatbot-simple", "rag-enterprise", "multi-agent-system"} |->
        [type |-> "typescript", package_manager |-> "pnpm",
         default_llm |-> "gpt-5.1",
         include_rag |-> n # "chatbot-simple",
         include_queue |-> n # "chatbot-simple",
         full |-> n # "chatbot-simple",
         scaffold_only |-> n = "chatbot-simple"]]

\* A variant of apply_preset that assigns every value of the preset.
apply_preset_overriding(a, preset_name) ==
    IF preset_name \notin DOMAIN Presets
    THEN [args |-> a, error |-> "ValueError"]
    ELSE LET preset == Presets[preset_name] IN
         [args |-> [a EXCEPT !.type = preset.type,
                             !.package_manager = preset.package_manager,
                             !.default_llm = preset.default_llm,
                             !.include_rag = preset.include_rag,
                             !.include_queue = preset.include_queue,
                             !.full = preset.full,
                             !.scaffold_only = preset.scaffold_only],
          error |-> "none"]

\* apply_preset(args, preset_name): the namespace after the call and the
\* exception it raised.
apply_preset(a, preset_name) ==
    IF preset_name \notin DOMAIN Presets
    THEN [args |-> a, error |-> "ValueError"]
    ELSE LET preset == Presets[preset_name]
             typed == [a EXCEPT !.type = IF @ = "" THEN preset.type ELSE @]
         IN  IF typed.type = "typescript"
             THEN [args |->
                     [typed EXCEPT
                        !.package_manager =
                            IF @ = "pnpm" THEN preset.package_manager ELSE @,
                        !.default_llm =
                            IF @ = "gpt-5.1" THEN preset.default_llm ELSE @,
                        !.include_rag = IF ~@ THEN preset.include_rag ELSE @,
                        !.include_queue = IF ~@ THEN preset.include_queue ELSE @,
                        !.full = IF ~@ THEN preset.full ELSE @,
                        !.scaffold_only = IF ~@ THEN preset.scaffold_only ELSE @],
                   error |-> "none"]
             ELSE [args |-> typed, error |-> "none"]

\* The namespaces apply_preset is called on; "no-such-preset" is a name that
\* is not a key of PRESETS.
PresetArgs ==
    [preset : DOMAIN Presets \cup {"no-such-preset"},
     type : {"", "python", "typescript"},
     package_manager : {"pnpm", "yarn"},
     default_llm : {"gpt-5.1", "gemini-3"},
     include_rag : BOOLEAN, include_queue : BOOLEAN,
     full : BOOLEAN, scaffold_only : BOOLEAN]

PresetInit ==
    /\ args \in PresetArgs
    /\ fs = [d \in OutDirs |-> FreeTarget]
    /\ fs0 = fs
    /\ pc = "preset"
    /\ validator_chain = create_validator_chain
    /\ checked = <<>>
    /\ outcome = NotRun
    /\ confirm_shown = FALSE
    /\ creator = NoCreator
    /\ templates = <<>>
    /\ trace = <<>>
    /\ tools = <<>>
    /\ raised = "none"
    /\ exit_code = NoExit

\* apply_preset(parsed, parsed.preset)
ApplyPreset ==
    /\ pc = "preset"
    /\ LET r == apply_preset(args, args.preset) IN
       /\ args' = r.args
       /\ raised' = r.error
    /\ pc' = "preset_done"
    /\ UNCHANGED <<fs, fs0, validator_chain, checked, outcome, confirm_shown,
                   creator, templates, trace, tools, exit_code>>

PresetNext == ApplyPreset

SpecPreset == PresetInit /\ [][PresetNext]_vars

(***************************************************************************)
(* The update command (CLI._handle_update).  fs[project_dir] describes the *)
(* project directory itself; outcome.reason names the message printed      *)
(* before a return of 1.                                                    *)
(***************************************************************************)
ProjectDirs == {"project"}

PackageJson == <<"package.json">>

PyprojectToml == <<"pyproject.toml">>

\* The files a project directory may hold at its root.
ProjectFileSets == SUBSET {PackageJson, PyprojectToml, <<"README.md">>}

\* What --project-dir may point at: nothing, a regular file, or a directory
\* with or without a src directory.
ProjectDirStates ==
    {[parent |-> "writable", kind |-> "dir", dirs |-> ds,
      files |-> [p \in fl |-> Custom]] :
        ds \in {{}, {<<"src">>}}, fl \in ProjectFileSets}
    \cup {[parent |-> "writable", kind |-> k, dirs |-> {}, files |-> NoFiles] :
            k \in {"absent", "file"}}

UpdateResult(status, message) == [status |-> status, message |-> message]

\* A variant of _handle_update that looks at the requested features first.
handle_update_features_first(a, fsys) ==
    LET t == fsys[a.project_dir] IN
    IF ~(a.add_rag \/ a.add_queue) THEN UpdateResult(1, "no features")
    ELSE IF t.kind = "absent" THEN UpdateResult(1, "no directory")
    ELSE IF ~RelExists(t, PackageJson) /\ ~RelExists(t, PyprojectToml)
    THEN UpdateResult(1, "type not detected")
    ELSE IF ~RelExists(t, PackageJson) THEN UpdateResult(1, "not typescript")
    ELSE UpdateResult(0, "in development")

\* CLI._handle_update(args): the status returned and the message printed.
handle_update(a, fsys) ==
    LET t == fsys[a.project_dir]
        is_typescript == RelExists(t, PackageJson)
        is_python == RelExists(t, PyprojectToml)
    IN  IF t.kind = "absent" THEN UpdateResult(1, "no directory")
        ELSE IF ~is_typescript /\ ~is_python
        THEN UpdateResult(1, "type not detected")
        ELSE IF ~is_typescript THEN UpdateResult(1, "not typescript")
        ELSE IF ~(a.add_rag \/ a.add_queue) THEN UpdateResult(1, "no features")
        ELSE UpdateResult(0, "in development")

UpdateInit ==
    /\ \E rag \in BOOLEAN, queue \in BOOLEAN :
          args = [command |-> "update", project_dir |-> "project",
                  add_rag |-> rag, add_queue |-> queue]
    /\ \E s \in ProjectDirStates : fs = [d \in ProjectDirs |-> s]
    /\ fs0 = fs
    /\ pc = "update"
    /\ validator_chain = create_validator_chain
    /\ checked = <<>>
    /\ outcome = NotRun
    /\ confirm_shown = FALSE
    /\ creator = NoCreator
    /\ templates = <<>>
    /\ trace = <<>>
    /\ tools = <<>>
    /\ raised = "none"
    /\ exit_code = NoExit

\* run with parsed.command == "update": return self._handle_update(parsed)
HandleUpdate ==
    /\ pc = "update"
    /\ LET r == handle_update(args, fs) IN
       /\ exit_code' = r.status
       /\ outcome' = [NotRun EXCEPT !.reason = r.message]
    /\ pc' = "done"
    /\ UNCHANGED <<args, fs, fs0, validator_chain, checked, confirm_shown,
                   creator, templates, trace, tools, raised>>

UpdateNext == HandleUpdate

SpecUpdate == UpdateInit /\ [][UpdateNext]_vars

(***************************************************************************)
(* Properties of the chain                                                 *)
(***************************************************************************)
ChainTarget == TargetPath(args.output_dir, args.project_name)

RanLink(v) == \E i \in 1..Len(checked) : checked[i] = v

FailedBy(v) == outcome.kind = "ValidationError" /\ outcome.by = v

\* C1: the chain evaluates name-format, then destination-not-occupied, then
\* writable-parent, in that order, and stops at the first check that does not
\* pass: every link evaluated before the last one passed, the link that
\* raised is the last one evaluated, and a chain that passes evaluated all
\* three.  When the name is invalid and the destination is occupied, only the
\* name-format check was evaluated and it is the one that raised.
C1_ChainOrderStopsAtFirstFailure ==
    pc = "chain_done" =>
        /\ checked = SubSeq(<<"ProjectNameValidator", "DirectoryExistsValidator",
                              "WritablePathValidator">>, 1, Len(checked))
        /\ Len(checked) >= 1
        /\ \A i \in 1..(Len(checked) - 1) :
              DoValidate(checked[i], args.project_name, ChainTarget, fs) = Pass
        /\ outcome.kind # "pass" => outcome.by = checked[Len(checked)]
        /\ outcome.kind = "pass" => Len(checked) = 3
        /\ ( /\ ProjectNameValidator_do_validate(args.project_name, ChainTarget, fs) # Pass
             /\ fs[args.output_dir].kind = "dir"
             /\ Entries(fs, ChainTarget) # {} )
           => /\ checked = <<"ProjectNameValidator">>
              /\ FailedBy("ProjectNameValidator")

\* The case C1 names: an invalid name on an occupied destination.
C1_Witness ==
    /\ pc = "chain_done"
    /\ args.project_name = <<"-", "a">>
    /\ fs[args.output_dir].kind = "dir"
    /\ Entries(fs, ChainTarget) # {}
    /\ FailedBy("ProjectNameValidator")

\* The names the documentation of ProjectNameValidator allows.
WellFormedName(s) ==
    /\ Len(s) >= 2
    /\ s[1] \in AlNum
    /\ \A i \in 2..Len(s) : s[i] \in NameChars

\* C5: the name-format check passes for exactly the names of length at least
\* 2 whose first character is an ASCII letter or digit and whose other
\* characters are ASCII letters, digits, hyphens or underscores.
C5_NameCheckPassesExactlyWellFormed ==
    pc = "chain_done" =>
        (~FailedBy("ProjectNameValidator") <=> WellFormedName(args.project_name))

\* C6: the destination-not-occupied check, when the chain reaches it, raises
\* its validation failure exactly when the target exists and has at least one
\* entry, and passes when the target does not exist or is an empty directory.
C6_DirectoryCheck ==
    (pc = "chain_done" /\ RanLink("DirectoryExistsValidator")) =>
        LET t == fs[args.output_dir] IN
        /\ FailedBy("DirectoryExistsValidator")
              <=> (t.kind # "absent" /\ Entries(fs, ChainTarget) # {})
        /\ (t.kind = "absent" \/ (t.kind = "dir" /\ Entries(fs, ChainTarget) = {}))
              => RanLink("WritablePathValidator")

C6_Witness ==
    /\ pc = "chain_done"
    /\ FailedBy("DirectoryExistsValidator")
    /\ fs[args.output_dir].files # NoFiles

\* C7: the writable-parent check, when the chain reaches it, passes exactly
\* when the parent of the target exists and is writable; otherwise it raises
\* a validation failure whose reason names the parent path.
C7_WritableParentCheck ==
    (pc = "chain_done" /\ RanLink("WritablePathValidator")) =>
        /\ outcome.kind = "pass" <=> fs[args.output_dir].parent = "writable"
        /\ outcome.kind # "pass" =>
              /\ FailedBy("WritablePathValidator")
              /\ outcome.path = ParentPath(ChainTarget)

C7_Witness ==
    /\ pc = "chain_done"
    /\ FailedBy("WritablePathValidator")
    /\ fs[args.output_dir].parent = "readonly"
    /\ outcome.path = [dir |-> args.output_dir, name |-> <<>>]

(***************************************************************************)
(* Properties of the run and of the pipeline                               *)
(***************************************************************************)
\* C2: when the chain raises a validation failure in run, run returns 1 and
\* nothing was mutated: no confirmation prompt was shown, no creator was
\* constructed, no step of the pipeline started, no tool was launched and the
\* filesystem is as it was when the run started.
C2_ValidationFailureAbortsBeforeMutation ==
    outcome.kind = "ValidationError" =>
        /\ pc = "done"
        /\ exit_code = 1
        /\ raised = "ValidationError"
        /\ ~confirm_shown
        /\ ~creator.made
        /\ trace = <<>>
        /\ tools = <<>>
        /\ fs = fs0

\* An interactive run refused because its destination is occupied.
C2_Witness ==
    /\ pc = "done"
    /\ exit_code = 1
    /\ ~args.non_interactive
    /\ FailedBy("DirectoryExistsValidator")
    /\ fs0[args.output_dir].files # NoFiles

\* C3: in a run whose project name has exactly one character, whatever the
\* other flags, validation fails and the target directory is never created:
\* the run never gets past validation and a target that did not exist still
\* does not exist.
C3_OneCharNameNeverCreated ==
    Len(args.project_name) = 1 =>
        /\ pc \in {"config", "validate", "done"}
        /\ \A d \in OutDirs : fs0[d].kind = "absent" => fs[d].kind = "absent"

\* C4: with --overwrite only the destination-not-occupied check is bypassed:
\* when the pipeline starts, the name-format check and the writable-parent
\* check were evaluated on (name, target path).
C4_OverwriteBypassesOnlyDirectoryCheck ==
    (args.overwrite /\ creator.made) =>
        /\ RanLink("ProjectNameValidator")
        /\ RanLink("WritablePathValidator")

\* C8: create starts its steps in the order collect templates, create
\* directories, write files, initialize version control, install hooks, each
\* at most once and none again: the steps started so far are always an
\* initial part of that list, and create returns only after all five.
C8_CreateStepsInOrder ==
    /\ trace = SubSeq(<<"collect", "directories", "files", "git", "hooks">>,
                      1, Len(trace))
    /\ Len(trace) <= 5
    /\ pc = "finish" => Len(trace) = 5
    /\ exit_code = 0 => Len(trace) = 5

C8_Witness ==
    /\ pc = "done"
    /\ exit_code = 0
    /\ trace = <<"collect", "directories", "files", "git", "hooks">>

\* The write step has run to its end.
FilesWritten ==
    \E i \in 1..Len(trace) :
        /\ trace[i] = "files"
        /\ i < Len(trace) \/ raised = "none"

TemplatePaths == {templates[i].relative_path : i \in 1..Len(templates)}

\* C9: with overwrite disabled, every file that existed under the target
\* when the run started still has the contents it had, at every point of the
\* pipeline, and running the write step (again) on the current filesystem
\* leaves every existing file as it is.
C9_NoOverwriteKeepsExistingFiles ==
    (creator.made /\ ~creator.options.overwrite) =>
        LET d == creator.output_dir
            again == create_files(fs[d], templates, FALSE, 1).t
        IN  /\ \A p \in DOMAIN fs0[d].files :
                  /\ p \in DOMAIN fs[d].files
                  /\ fs[d].files[p] = fs0[d].files[p]
            /\ \A p \in DOMAIN fs[d].files :
                  /\ p \in DOMAIN again.files
                  /\ again.files[p] = fs[d].files[p]

\* The write step ran without overwrite over a file of the user's that sits
\* at a template path.
C9_Witness ==
    /\ creator.made
    /\ ~creator.options.overwrite
    /\ FilesWritten
    /\ <<"README.md">> \in TemplatePaths
    /\ <<"README.md">> \in DOMAIN fs0[creator.output_dir].files
    /\ fs[creator.output_dir].files[<<"README.md">>] = Custom

\* C10: with overwrite enabled, once the write step has completed, the file
\* at every template path holds the content its template entry produces.
C10_OverwriteWritesEveryTemplate ==
    (creator.made /\ creator.options.overwrite /\ FilesWritten) =>
        \A i \in 1..Len(templates) :
            /\ templates[i].relative_path \in DOMAIN fs[creator.output_dir].files
            /\ fs[creator.output_dir].files[templates[i].relative_path]
                  = get_content(templates[i])

\* The write step replaced a file of the user's.
C10_Witness ==
    /\ creator.made
    /\ creator.options.overwrite
    /\ FilesWritten
    /\ <<"README.md">> \in DOMAIN fs0[creator.output_dir].files
    /\ fs0[creator.output_dir].files[<<"README.md">>] = Custom
    /\ fs[creator.output_dir].files[<<"README.md">>] # Custom

(***************************************************************************)
(* Properties of template collection and of the derived directories        *)
(***************************************************************************)
Paths(tpls) == {tpls[i].relative_path : i \in 1..Len(tpls)}

\* Every directory strictly between the root and the file at `path`.
Ancestors(path) == {SubSeq(path, 1, k) : k \in 1..(Len(path) - 1)}

\* C11: for the collected template list, the set _extract_directories returns
\* is exactly the project root together with every ancestor directory of
\* every template path (a set: no directory twice), and once the directory
\* step returned every one of them exists under the target.
C11_DirectoriesAreRootAndAncestors ==
    Len(trace) >= 1 =>
        LET expected == {<<>>} \cup UNION {Ancestors(p) : p \in Paths(templates)} IN
        /\ extract_directories(templates) = expected
        /\ (Len(trace) >= 2 /\ raised = "none") =>
              /\ fs[creator.output_dir].kind = "dir"
              /\ expected \ {<<>>} \subseteq fs[creator.output_dir].dirs

\* The directory step made a directory three levels deep and those above it.
C11_Witness ==
    /\ Len(trace) >= 2
    /\ raised = "none"
    /\ <<"app", "api", "v1", "endpoints", "users.py">> \in Paths(templates)
    /\ {<<"app">>, <<"app", "api">>, <<"app", "api", "v1">>,
        <<"app", "api", "v1", "endpoints">>} \subseteq fs[creator.output_dir].dirs
    /\ <<>> \in extract_directories(templates)

\* An entry of the test-file grouping: a file of the tests tree.
IsTestEntry(t) == t.relative_path[1] \in {"tests", "test"}

NotTestEntry(t) == ~IsTestEntry(t)

\* The test files of the Python variant, as get_test_templates lists them.
PythonTestPaths ==
    {<<"tests", "__init__.py">>, <<"tests", "conftest.py">>,
     <<"tests", "unit", "__init__.py">>, <<"tests", "unit", "test_services.py">>,
     <<"tests", "unit", "test_repositories.py">>,
     <<"tests", "integration", "__init__.py">>,
     <<"tests", "integration", "test_users_endpoint.py">>}

\* C12: for either variant and any other options, the list collected with
\* test-inclusion off has no entry of the test-file grouping, and the list
\* collected with test-inclusion on is that list with exactly the
\* test-grouping entries added: every other entry is the same, in the same
\* order.  The grouping is the seven files under tests/ for the Python
\* variant; no TypeScript factory lists a test file.
C12_TestInclusionGatesTestGroup ==
    Len(trace) >= 1 =>
        LET v == creator.variant
            o == creator.options
            off == collect_templates(v, [o EXCEPT !.include_tests = FALSE])
            on == collect_templates(v, [o EXCEPT !.include_tests = TRUE])
        IN  /\ templates = IF o.include_tests THEN on ELSE off
            /\ \A i \in 1..Len(off) : NotTestEntry(off[i])
            /\ SelectSeq(on, NotTestEntry) = off
            /\ Paths(on) \ Paths(off) =
                  IF v = "python" THEN PythonTestPaths ELSE {}
            /\ Len(on) = Len(off) + Cardinality(Paths(on) \ Paths(off))

\* A Python list collected without tests, and one collected with them.
C12_Witness ==
    /\ Len(trace) >= 1
    /\ creator.variant = "python"
    /\ ~creator.options.include_tests
    /\ Paths(templates) \cap PythonTestPaths = {}
    /\ <<"app", "main.py">> \in Paths(templates)

DockerGroup == {<<"Dockerfile">>, <<"docker-compose.yml">>}

IsWorkflow(path) == Len(path) = 3 /\ SubSeq(path, 1, 2) = <<".github", "workflows">>

RagPath == <<"src", "agents", "rag", ".gitkeep">>

QueuePath == <<"src", "queue", ".gitkeep">>

\* The paths a flag decides about.
FlagGroup(flag, paths) ==
    CASE flag = "include_docker" -> DockerGroup
      [] flag = "include_cicd" -> {p \in paths : IsWorkflow(p)}
      [] flag = "include_rag" -> {RagPath}
      [] flag = "include_queue" -> {QueuePath}

\* C13: in the collected list, Dockerfile and docker-compose.yml are present
\* exactly when docker-inclusion is set, the .github/workflows entries
\* exactly when CI-inclusion is set and, for TypeScript, the RAG placeholder
\* exactly when RAG-inclusion is set and the queue placeholder exactly when
\* queue-inclusion is set; and toggling one of these flags changes the
\* membership of no path outside that flag's group.
C13_SelectionGatedPerFlag ==
    Len(trace) >= 1 =>
        LET v == creator.variant
            o == creator.options
            P == Paths(templates)
        IN  /\ o.include_docker => DockerGroup \subseteq P
            /\ ~o.include_docker => DockerGroup \cap P = {}
            /\ o.include_cicd <=> (\E p \in P : IsWorkflow(p))
            /\ v = "typescript" =>
                  /\ o.include_rag <=> RagPath \in P
                  /\ o.include_queue <=> QueuePath \in P
            /\ \A flag \in {"include_docker", "include_cicd", "include_rag",
                           "include_queue"} :
                  LET Q == Paths(collect_templates(v, [o EXCEPT ![flag] = ~@]))
                  IN  (P \ Q) \cup (Q \ P) \subseteq FlagGroup(flag, P \cup Q)

\* A TypeScript list with the RAG and queue placeholders and no Docker file.
C13_Witness ==
    /\ Len(trace) >= 1
    /\ creator.variant = "typescript"
    /\ creator.options.include_rag
    /\ creator.options.include_queue
    /\ ~creator.options.include_docker
    /\ {RagPath, QueuePath} \subseteq Paths(templates)
    /\ DockerGroup \cap Paths(templates) = {}

(***************************************************************************)
(* Properties of the generated tree and of the best-effort steps           *)
(***************************************************************************)
\* A path of the RAG scaffolding or of the queue scaffolding.
RagOrQueuePath(path) ==
    \/ Len(path) >= 3 /\ SubSeq(path, 1, 3) = <<"src", "agents", "rag">>
    \/ Len(path) >= 2 /\ SubSeq(path, 1, 2) = <<"src", "queue">>

\* C14: a run for the Python variant named demo-api with docker-inclusion
\* and test-inclusion set, whatever the RAG and queue flags are: once the
\* write step has completed the tree under the target has Dockerfile,
\* docker-compose.yml and tests/__init__.py, and no file or directory under
\* src/agents/rag or src/queue.
C14_PythonDemoApiTree ==
    (/\ creator.made
     /\ creator.variant = "python"
     /\ creator.project_name = DemoApi
     /\ creator.options.include_docker
     /\ creator.options.include_tests
     /\ FilesWritten) =>
        LET t == fs[creator.output_dir] IN
        /\ {<<"Dockerfile">>, <<"docker-compose.yml">>, <<"tests", "__init__.py">>}
              \subseteq DOMAIN t.files
        /\ \A p \in DOMAIN t.files \cup t.dirs : ~RagOrQueuePath(p)

\* Such a run, asked for RAG and queue as well, ended with status 0 over a
\* target that did not exist.
C14_Witness ==
    /\ pc = "done"
    /\ exit_code = 0
    /\ creator.variant = "python"
    /\ creator.project_name = DemoApi
    /\ creator.options.include_docker
    /\ creator.options.include_tests
    /\ args.include_rag
    /\ args.include_queue
    /\ fs0[creator.output_dir].kind = "absent"
    /\ <<"tests", "__init__.py">> \in DOMAIN fs[creator.output_dir].files

\* C15: no failure of the version-control step or of the hook step leaves
\* create: a run that started the version-control step ends with status 0,
\* whatever happened when the tools were launched.
C15_BestEffortStepsNeverPropagate ==
    (pc = "done" /\ Len(trace) >= 4) =>
        /\ raised = "none"
        /\ exit_code = 0

\* C16: when collecting templates, creating directories or writing files
\* raises, run returns 1, neither the version-control step nor the hook step
\* is started and no tool is launched, and nothing is rolled back: whatever
\* existed before the run is still there, the directories the directory step
\* made are still there, and every template listed before the first one
\* that could not be written has its file, with the content that was
\* written (or, without overwrite, the content the file already had).
C16_PipelineFailureIsFatalNoRollback ==
    (pc = "done" /\ creator.made /\ raised # "none" /\ Len(trace) <= 3) =>
        LET t == fs[creator.output_dir]
            t0 == fs0[creator.output_dir]
            blocked(i) == templates[i].relative_path \in t.dirs
        IN  /\ exit_code = 1
            /\ trace = SubSeq(<<"collect", "directories", "files">>, 1, Len(trace))
            /\ tools = <<>>
            /\ t0.dirs \subseteq t.dirs
            /\ DOMAIN t0.files \subseteq DOMAIN t.files
            /\ Len(trace) = 3 =>
                  /\ t.kind = "dir"
                  /\ extract_directories(templates) \ {<<>>} \subseteq t.dirs
                  /\ \A j \in 1..Len(templates) :
                        (\A i \in 1..j : ~blocked(i)) =>
                            LET p == templates[j].relative_path IN
                            /\ p \in DOMAIN t.files
                            /\ \/ t.files[p] = get_content(templates[j])
                               \/ /\ ~creator.options.overwrite
                                  /\ p \in DOMAIN t0.files
                                  /\ t.files[p] = t0.files[p]

\* The write step failed at README.md, where a directory sits, after it had
\* written the files listed before it.
C16_Witness ==
    /\ pc = "done"
    /\ exit_code = 1
    /\ raised = "IsADirectoryError"
    /\ trace = <<"collect", "directories", "files">>
    /\ <<"README.md">> \in fs[creator.output_dir].dirs
    /\ <<"app", "main.py">> \in DOMAIN fs[creator.output_dir].files
    /\ <<"app", "main.py">> \notin DOMAIN fs0[creator.output_dir].files

\* C17: the hook installation tool is launched only in runs whose collected
\* template list has the hook-configuration file .pre-commit-config.yaml.
C17_HooksOnlyWithHookConfig ==
    (\E i \in 1..Len(tools) : tools[i] = "pre-commit install") =>
        <<".pre-commit-config.yaml">> \in TemplatePaths

\* C18: in the version-control step, when .git existed at the target root
\* neither `git init` nor `git add` is launched; otherwise `git init` is
\* launched, once, and `git add .gitignore` is launched only right after a
\* `git init` that succeeded (it made .git) and only with the ignore-file,
\* a collected template, present at the target root.
C18_GitStepGuards ==
    creator.made =>
        LET t == fs[creator.output_dir]
            t0 == fs0[creator.output_dir]
            inits == {i \in 1..Len(tools) : tools[i] = "git init"}
            adds == {i \in 1..Len(tools) : tools[i] = "git add .gitignore"}
            started == \E i \in 1..Len(trace) : trace[i] = "git"
        IN  /\ RelExists(t0, GitDir) => inits = {} /\ adds = {}
            /\ (started /\ ~RelExists(t0, GitDir)) => inits = {1}
            /\ ~started => inits = {} /\ adds = {}
            /\ \A i \in adds :
                  /\ i - 1 \in inits
                  /\ GitDir \in t.dirs
                  /\ <<".gitignore">> \in TemplatePaths
                  /\ <<".gitignore">> \in DOMAIN t.files

\* A run over a target without .git initialised the repository and staged
\* the generated ignore-file.
C18_Witness ==
    /\ pc = "done"
    /\ exit_code = 0
    /\ ~RelExists(fs0[creator.output_dir], GitDir)
    /\ SubSeq(tools, 1, 2) = <<"git init", "git add .gitignore">>
    /\ fs[creator.output_dir].files[<<".gitignore">>]
          = get_content(Tpl(creator.variant, <<".gitignore">>))

(***************************************************************************)
(* Properties of the exit status                                           *)
(***************************************************************************)
\* C19: a finished run returned exactly one of 0, 1, 130: 0 only when the
\* pipeline ran and create returned normally (all five steps, no exception),
\* 130 exactly when the run was cancelled (KeyboardInterrupt), 1 for a
\* validation failure and for every other exception; and run always ends by
\* returning: an exception never leaves it without a status.
C19_ExitStatusIsOneOfThree ==
    /\ pc = "done" <=> exit_code # NoExit
    /\ raised # "none" => pc = "done"
    /\ pc = "done" =>
          /\ exit_code \in {0, 1, 130}
          /\ exit_code = 0 =>
                /\ raised = "none"
                /\ creator.made
                /\ trace = <<"collect", "directories", "files", "git", "hooks">>
          /\ exit_code = 130 <=> raised = "KeyboardInterrupt"
          /\ raised = "ValidationError" => exit_code = 1
          /\ raised \notin {"none", "KeyboardInterrupt"} => exit_code = 1

\* A run that ended with status 1 on an exception other than a validation
\* failure.
C19_Witness ==
    /\ pc = "done"
    /\ exit_code = 1
    /\ raised \notin {"none", "ValidationError", "KeyboardInterrupt"}
    /\ creator.made

\* C20: the step in which the user rejects the summary and declines to
\* modify the configuration ends the run with status 130; no creator was
\* constructed, no step of the pipeline was started, no tool was launched,
\* the filesystem is as it was when the run started, and a run that ended
\* takes no further step.
C20_CancelEndsRunWith130 ==
    [][/\ ConfirmCancel =>
            /\ pc' = "done"
            /\ exit_code' = 130
            /\ exit_code' # 1
            /\ raised' = "KeyboardInterrupt"
            /\ ~creator'.made
            /\ trace' = <<>>
            /\ tools' = <<>>
            /\ fs' = fs0
       /\ pc # "done"]_vars

\* A run cancelled at the confirmation prompt, after a validation that
\* passed.
C20_Witness ==
    /\ pc = "done"
    /\ exit_code = 130
    /\ confirm_shown
    /\ outcome.kind = "pass"
    /\ ~creator.made
    /\ fs = fs0

C22_PipelinePairWasValidated ==
    (creator.made /\ ~args.overwrite) =>
        /\ outcome.kind = "pass"
        /\ Validator_validate(validator_chain, 1, creator.project_name,
                              TargetPath(creator.output_dir, creator.project_name),
                              fs0, <<>>).result.kind = "pass"

\* C23: whatever the name, the target path and the filesystem, an invocation
\* of the chain either returns or raises ValidationError with a reason.
C23_ChainRaisesOnlyValidationError ==
    pc = "chain_done" =>
        \/ outcome.kind = "pass"
        \/ outcome.kind = "ValidationError" /\ outcome.reason # ""

(***************************************************************************)
(* Properties of what the pipeline leaves on disk                          *)
(***************************************************************************)
\* C24: after a run that completed (status 0) on a target path that did not
\* exist when it started, the target is a directory, every derived directory
\* exists under it and, for every collected template entry, the file at its
\* relative path holds exactly the content the entry gives.
C24_CompletedRunHasWholeTree ==
    (pc = "done" /\ exit_code = 0 /\ fs0[creator.output_dir].kind = "absent") =>
        LET t == fs[creator.output_dir] IN
        /\ t.kind = "dir"
        /\ extract_directories(templates) \ {<<>>} \subseteq t.dirs
        /\ templates # <<>>
        /\ \A i \in 1..Len(templates) :
              /\ templates[i].relative_path \in DOMAIN t.files
              /\ t.files[templates[i].relative_path] = get_content(templates[i])

\* A TypeScript run without overwrite completed under a parent directory
\* that did not exist either.
C24_Witness ==
    /\ pc = "done"
    /\ exit_code = 0
    /\ creator.variant = "typescript"
    /\ ~creator.options.overwrite
    /\ fs0[creator.output_dir].parent = "missing"
    /\ fs[creator.output_dir].files[<<"src", "main.ts">>]
          = get_content(Tpl("typescript", <<"src", "main.ts">>))
    /\ <<"src", "common", "guards">> \in fs[creator.output_dir].dirs

\* The entries of a list in the opposite order.
Reversed(tpls) == [i \in 1..Len(tpls) |-> tpls[Len(tpls) + 1 - i]]

\* C27: the list one call of create collects on a fresh creator, for either
\* variant and any options, names no relative path twice; so, over a free
\* target, once the write step returned every path holds the content of its
\* one entry whether overwrite is on or off, and writing the entries in the
\* opposite order gives the same files.
C27_NoDuplicatePaths ==
    Len(trace) >= 1 =>
        /\ \A i, j \in 1..Len(templates) :
              templates[i].relative_path = templates[j].relative_path => i = j
        /\ Cardinality(Paths(templates)) = Len(templates)
        /\ (Len(trace) >= 3 /\ raised = "none") =>
              LET d == creator.output_dir
                  made == create_directories(fs0[d], templates).t
              IN  /\ \A i \in 1..Len(templates) :
                        fs[d].files[templates[i].relative_path]
                            = get_content(templates[i])
                  /\ create_files(made, Reversed(templates),
                                  creator.options.overwrite, 1).t.files
                        = fs[d].files
                  /\ create_files(made, templates,
                                  ~creator.options.overwrite, 1).t.files
                        = fs[d].files

\* A TypeScript creator with every option on wrote its files without
\* overwrite.
C27_Witness ==
    /\ Len(trace) >= 3
    /\ raised = "none"
    /\ creator.variant = "typescript"
    /\ creator.options.include_docker
    /\ creator.options.include_cicd
    /\ creator.options.include_rag
    /\ creator.options.include_queue
    /\ ~creator.options.overwrite
    /\ Cardinality(DOMAIN fs[creator.output_dir].files) = Len(templates)
    /\ Len(templates) > 40

\* C28: the directory step and the write step delete nothing, and change no
\* file whose path is not the path of a collected template entry: every
\* directory and every file that was under the target when the run started
\* is still there, and a file at a path no template has still has the
\* content it had, with or without overwrite.
C28_NonTemplateFilesUntouched ==
    (creator.made /\ Len(trace) >= 1) =>
        LET t == fs[creator.output_dir]
            t0 == fs0[creator.output_dir]
        IN  /\ t0.dirs \subseteq t.dirs
            /\ \A p \in DOMAIN t0.files :
                  /\ p \in DOMAIN t.files
                  /\ p \notin TemplatePaths => t.files[p] = t0.files[p]
            /\ t0.kind = "file" => t.kind = "file"
            /\ t0.kind = "dir" => t.kind = "dir"

\* A run with overwrite replaced the user's README.md and left notes.txt, of
\* which no template knows, as it was.
C28_Witness ==
    /\ creator.made
    /\ creator.options.overwrite
    /\ FilesWritten
    /\ <<"notes.txt">> \notin TemplatePaths
    /\ <<"notes.txt">> \in DOMAIN fs0[creator.output_dir].files
    /\ fs[creator.output_dir].files[<<"notes.txt">>] = Custom
    /\ fs[creator.output_dir].files[<<"README.md">>] # Custom

(***************************************************************************)
(* Properties of presets and of the update command                         *)
(***************************************************************************)
TypeScriptOptions ==
    {"package_manager", "default_llm", "include_rag", "include_queue", "full",
     "scaffold_only"}

\* C25: a call of apply_preset keeps a type that was set, keeps true every
\* boolean flag that was true, keeps a package manager and a default LLM
\* that differ from the defaults, changes no TypeScript option when the
\* resulting type is not typescript, and with a name that is not a preset
\* raises an error and changes nothing; with a known name it raises nothing.
C25_PresetKeepsExplicitOptions ==
    [][ApplyPreset =>
          /\ args.type # "" => args'.type = args.type
          /\ \A f \in {"include_rag", "include_queue", "full", "scaffold_only"} :
                args[f] => args'[f]
          /\ args.package_manager # "pnpm" =>
                args'.package_manager = args.package_manager
          /\ args.default_llm # "gpt-5.1" => args'.default_llm = args.default_llm
          /\ args'.type # "typescript" =>
                \A f \in TypeScriptOptions : args'[f] = args[f]
          /\ args.preset \notin {"chatbot-simple", "rag-enterprise",
                                 "multi-agent-system"} =>
                (raised' = "ValueError" /\ args' = args)
          /\ args.preset \in {"chatbot-simple", "rag-enterprise",
                              "multi-agent-system"} => raised' = "none"
          /\ args'.preset = args.preset]_vars

\* rag-enterprise was applied to a namespace without a type: the type and
\* the flags come from the preset, the package manager the user chose stays.
C25_Witness ==
    /\ pc = "preset_done"
    /\ raised = "none"
    /\ args.preset = "rag-enterprise"
    /\ args.type = "typescript"
    /\ args.package_manager = "yarn"
    /\ args.default_llm = "gemini-3"
    /\ args.include_rag
    /\ args.full
    /\ args.scaffold_only

\* C26: the update command changes nothing on the filesystem, constructs no
\* creator, starts no step of the pipeline and launches no tool; it returns
\* 1 when the project directory does not exist, else 1 when it has neither
\* package.json nor pyproject.toml, else 1 when it has no package.json, else
\* 1 when neither --add-rag nor --add-queue was given, the first of these
\* that applies being the one reported, and 0 in every other case.
C26_UpdateOnlyReports ==
    pc = "done" =>
        LET t == fs0[args.project_dir]
            exists == t.kind # "absent"
            pkg == t.kind = "dir" /\ PackageJson \in DOMAIN t.files
            pyp == t.kind = "dir" /\ PyprojectToml \in DOMAIN t.files
            feats == args.add_rag \/ args.add_queue
        IN  /\ fs = fs0
            /\ ~creator.made
            /\ trace = <<>>
            /\ tools = <<>>
            /\ raised = "none"
            /\ exit_code \in {0, 1}
            /\ ~exists => (exit_code = 1 /\ outcome.reason = "no directory")
            /\ (exists /\ ~pkg /\ ~pyp) =>
                  (exit_code = 1 /\ outcome.reason = "type not detected")
            /\ (exists /\ ~pkg /\ pyp) =>
                  (exit_code = 1 /\ outcome.reason = "not typescript")
            /\ (exists /\ pkg /\ ~feats) =>
                  (exit_code = 1 /\ outcome.reason = "no features")
            /\ exit_code = 0 <=> (exists /\ pkg /\ feats)

\* update --add-rag on a TypeScript project returned 0 and left it as it was.
C26_Witness ==
    /\ pc = "done"
    /\ exit_code = 0
    /\ args.add_rag
    /\ ~args.add_queue
    /\ PackageJson \in DOMAIN fs[args.project_dir].files
    /\ <<"src">> \in fs[args.project_dir].dirs
    /\ fs = fs0

====
